---- MODULE Spec2Model ----
(***************************************************************************)
(* Model of s21::PathFinder (PathFinder.cpp): the facade state start_,     *)
(* end_, path_, maze_, the A* search and the Q-Learning search.            *)
(***************************************************************************)
EXTENDS Integers, Sequences, FiniteSets, TLC

VARIABLES
    maze_, start_, end_, path_,   \* the members of PathFinder
    pointOrder,                   \* which operator< Point<int> has
    result,                       \* what the last public call returned or threw
    pc,                           \* where the running QPathFinding call is
    q,                            \* the locals of the running QPathFinding call
    changed,                      \* whether that call has changed start_ or end_
    search                        \* the locals of a findPathAStar run step by step

vars == <<maze_, start_, end_, path_, pointOrder, result, pc, q, changed, search>>

facade == <<start_, end_, path_>>

(* ---------------------------------------------------------------------- *)
(* Bounds of the model                                                     *)
(* ---------------------------------------------------------------------- *)
MaxBeyond == 1

MaxEpisodes == 2

MaxEpisodeSteps == 2

MaxGarbage == 1

(* ---------------------------------------------------------------------- *)
(* Points and the maze matrix                                              *)
(* ---------------------------------------------------------------------- *)
Pt(c, r) == [col |-> c, row |-> r]

Unset == Pt(-1, -1)

Abs(n) == IF n < 0 THEN -n ELSE n

\* float division followed by the conversion to int: truncation toward zero
ToIndex(x, ratio) == IF x >= 0 THEN x \div ratio ELSE -((-x) \div ratio)

GetRows(maze) == Len(maze)

GetCols(maze) == IF Len(maze) = 0 THEN 0 ELSE Len(maze[1])

\* S21Matrix::operator()(row, col), zero-based
At(maze, y, x) == maze[y + 1][x + 1]

\* operator< of Point<int>, which orders the std::set, the std::map and the
\* ties of the priority queue; the order is one of the lexicographic ones
PointOrders == {"col_row", "row_col"}

PointLess(a, b, order) ==
    IF order = "col_row"
    THEN a.col < b.col \/ (a.col = b.col /\ a.row < b.row)
    ELSE a.row < b.row \/ (a.row = b.row /\ a.col < b.col)

isNotWall(maze, x, y) ==
    IF (x >= 0 /\ x < GetCols(maze)) /\ (y >= 0 /\ y < GetRows(maze))
    THEN At(maze, y, x) = "0"
    ELSE FALSE

calculateG(current, next) ==
    IF current.col = next.col THEN Abs(current.row - next.row)
    ELSE IF current.row = next.row THEN Abs(current.col - next.col)
    ELSE 0

calculateHeuristic(point, goal) ==
    Abs(point.col - goal.col) + Abs(point.row - goal.row)

(* ---------------------------------------------------------------------- *)
(* reconstructPath: walks the parent map from end back to start.  A parent *)
(* map with a cycle makes the loop push without end (hang = TRUE).         *)
(* ---------------------------------------------------------------------- *)
RECURSIVE reconstructLoop(_, _, _, _, _)
reconstructLoop(parent, start, current, acc, fuel) ==
    IF current = start THEN [path |-> Append(acc, start), hang |-> FALSE]
    ELSE IF current \notin DOMAIN parent THEN [path |-> acc, hang |-> FALSE]
    ELSE IF fuel = 0 THEN [path |-> acc, hang |-> TRUE]
    ELSE reconstructLoop(parent, start, parent[current],
                         Append(acc, current), fuel - 1)

\* reconstructPath that forgets the final push of start
reconstructPathNoStart(parent, start, end) ==
    LET r == reconstructLoop(parent, start, end, <<>>, Cardinality(DOMAIN parent) + 1)
    IN [r EXCEPT !.path = SubSeq(@, 1, Len(@) - 1)]

reconstructPath(parent, start, end) ==
    reconstructLoop(parent, start, end, <<>>, Cardinality(DOMAIN parent) + 1)

(* ---------------------------------------------------------------------- *)
(* findPathAStar                                                           *)
(* ---------------------------------------------------------------------- *)
dx_order == <<-1, 0, 1, 0>>

dy_order == <<0, -1, 0, 1>>

EmptyMap == [p \in {} |-> Unset]

\* std::greater on pair<int, Point>: top() is the least (f, point)
PairLess(a, b, order) ==
    a[1] < b[1] \/ (a[1] = b[1] /\ PointLess(a[2], b[2], order))

PqTop(pq, order) ==
    CHOOSE a \in pq : \A b \in pq \ {a} : PairLess(a, b, order)

\* the neighbour loop stopping one index early (i < 3): DOWN is never scanned
RECURSIVE ScanNeighboursNoDown(_, _, _, _, _, _)
ScanNeighboursNoDown(s, maze, start, goal, current, i) ==
    IF i > 3 THEN s
    ELSE LET next == Pt(current.col + dx_order[i], current.row + dy_order[i])
         IN IF isNotWall(maze, next.col, next.row) /\ next \notin s.visited
            THEN ScanNeighboursNoDown(
                     [s EXCEPT !.pq = @ \cup {<<calculateG(current, next)
                                                + calculateG(start, current)
                                                + calculateHeuristic(next, goal), next>>},
                               !.visited = @ \cup {next},
                               !.parent = (next :> current) @@ @],
                     maze, start, goal, current, i + 1)
            ELSE ScanNeighboursNoDown(s, maze, start, goal, current, i + 1)

\* the for loop over the four neighbours of current, from index i on
RECURSIVE ScanNeighbours(_, _, _, _, _, _)
ScanNeighbours(s, maze, start, goal, current, i) ==
    IF i > 4 THEN s
    ELSE LET next == Pt(current.col + dx_order[i], current.row + dy_order[i])
         IN IF isNotWall(maze, next.col, next.row) /\ next \notin s.visited
            THEN LET g_new == calculateG(current, next) + calculateG(start, current)
                     h_new == calculateHeuristic(next, goal)
                     f_new == g_new + h_new
                 IN ScanNeighbours(
                        [s EXCEPT !.pq = @ \cup {<<f_new, next>>},
                                  !.visited = @ \cup {next},
                                  !.parent = (next :> current) @@ @],
                        maze, start, goal, current, i + 1)
            ELSE ScanNeighbours(s, maze, start, goal, current, i + 1)

AStarInit(start, goal) ==
    [pq |-> {<<calculateHeuristic(start, goal), start>>},
     visited |-> {start},
     parent |-> EmptyMap,
     status |-> "searching"]

\* one iteration of while (!pq.empty()), or the exit of the loop
AStarIter(s, maze, start, goal, order) ==
    IF s.pq = {} THEN [s EXCEPT !.status = "unreachable"]
    ELSE LET top == PqTop(s.pq, order)
             current == top[2]
             popped == [s EXCEPT !.pq = @ \ {top}]
         IN IF current = goal
            THEN [popped EXCEPT !.status = "found"]
            ELSE ScanNeighbours(popped, maze, start, goal, current, 1)

RECURSIVE AStarLoop(_, _, _, _, _)
AStarLoop(s, maze, start, goal, order) ==
    IF s.status /= "searching" THEN s
    ELSE AStarLoop(AStarIter(s, maze, start, goal, order), maze, start, goal, order)

\* the search from start_ to end_ (logical), in doubled coordinates
findPathAStar(maze, st, en, order) ==
    LET start == Pt(st.col * 2, st.row * 2)
        goal == Pt(en.col * 2, en.row * 2)
        s == AStarLoop(AStarInit(start, goal), maze, start, goal, order)
    IN IF s.status = "found"
       THEN [status |-> "found", path |-> reconstructPath(s.parent, start, goal).path]
       ELSE [status |-> "unreachable", path |-> <<>>]

(* ---------------------------------------------------------------------- *)
(* The facade                                                              *)
(* ---------------------------------------------------------------------- *)
PathNotFoundMsg == "Path not found. Probably the labyrinth has isolated study areas"

IncorrectPointMsg == "Incorrect point"

NoResult == [op |-> "none", ok |-> TRUE, msg |-> "", astar |-> "none"]

\* QPathFinding has not returned yet
Running == [op |-> "running", ok |-> TRUE, msg |-> "", astar |-> "none"]

\* findPath whose catch block rethrows without first = copy
findPathNoRestore(maze, st, en, which, copy, old, order) ==
    LET second == IF which = "start" THEN en ELSE st
        kept == [start |-> st, end |-> en, path |-> old,
                 ok |-> TRUE, msg |-> "", astar |-> "none"]
    IN IF GetRows(maze) = 0 \/ GetCols(maze) = 0 THEN kept
       ELSE IF second.col > -1 /\ second.row > -1
       THEN LET r == findPathAStar(maze, st, en, order)
            IN IF r.status = "found"
               THEN [kept EXCEPT !.path = r.path, !.astar = "found"]
               ELSE [kept EXCEPT !.ok = FALSE, !.msg = PathNotFoundMsg,
                                 !.astar = "unreachable"]
       ELSE kept

\* findPath(first, second, copy) after first was assigned: st and en are
\* start_ and end_ as assigned, which tells whether first is start_ or end_
findPath(maze, st, en, which, copy, old, order) ==
    LET second == IF which = "start" THEN en ELSE st
        kept == [start |-> st, end |-> en, path |-> old,
                 ok |-> TRUE, msg |-> "", astar |-> "none"]
    IN IF GetRows(maze) = 0 \/ GetCols(maze) = 0 THEN kept
       ELSE IF second.col > -1 /\ second.row > -1
       THEN LET r == findPathAStar(maze, st, en, order)
            IN IF r.status = "found"
               THEN [kept EXCEPT !.path = r.path, !.astar = "found"]
               ELSE [start |-> IF which = "start" THEN copy ELSE st,
                     end |-> IF which = "end" THEN copy ELSE en,
                     path |-> old, ok |-> FALSE, msg |-> PathNotFoundMsg,
                     astar |-> "unreachable"]
       ELSE kept

\* reset without path_.clear()
resetKeepsPath == [start |-> Unset, end |-> Unset, path |-> path_]

reset == [start |-> Unset, end |-> Unset, path |-> <<>>]

setMaze(maze) ==
    /\ pc = "idle"
    /\ maze_' = maze
    /\ start_' = reset.start
    /\ end_' = reset.end
    /\ path_' = reset.path
    /\ result' = [NoResult EXCEPT !.op = "set_maze"]
    /\ UNCHANGED <<pointOrder, pc, q, changed, search>>

setStartPosition(x, y, wRatio, hRatio) ==
    LET rowIndex == ToIndex(y, hRatio)
        colIndex == ToIndex(x, wRatio)
        copy == start_
        r == findPath(maze_, Pt(colIndex, rowIndex), end_, "start", copy,
                      path_, pointOrder)
    IN /\ pc = "idle"
       /\ start_' = r.start
       /\ end_' = r.end
       /\ path_' = r.path
       /\ result' = [op |-> "set_start", ok |-> r.ok, msg |-> r.msg, astar |-> r.astar]
       /\ UNCHANGED <<maze_, pointOrder, pc, q, changed, search>>

setEndPosition(x, y, wRatio, hRatio) ==
    LET rowIndex == ToIndex(y, hRatio)
        colIndex == ToIndex(x, wRatio)
        copy == end_
        r == findPath(maze_, start_, Pt(colIndex, rowIndex), "end", copy,
                      path_, pointOrder)
    IN /\ pc = "idle"
       /\ start_' = r.start
       /\ end_' = r.end
       /\ path_' = r.path
       /\ result' = [op |-> "set_end", ok |-> r.ok, msg |-> r.msg, astar |-> r.astar]
       /\ UNCHANGED <<maze_, pointOrder, pc, q, changed, search>>

(* ---------------------------------------------------------------------- *)
(* Q-Learning.  The float Q-values are kept in thousandths; alpha = 0.9    *)
(* and gamma = 0.98 are applied as 9/10 and 98/100, rounding down.         *)
(* ---------------------------------------------------------------------- *)
Actions == 0 .. 3      \* LEFT, UP, RIGHT, DOWN

RewardGoal == 10000

RewardWall == -10000

RewardStep == -100

QStepCap == 40000

NoCall == [active |-> FALSE]

InGrid(maze, p) ==
    p.col >= 0 /\ p.col < GetCols(maze) /\ p.row >= 0 /\ p.row < GetRows(maze)

GridCells(maze) ==
    {Pt(c, r) : c \in 0 .. GetCols(maze) - 1, r \in 0 .. GetRows(maze) - 1}

MaxOf(v) == CHOOSE m \in {v[i] : i \in 1 .. 4} : \A i \in 1 .. 4 : v[i] <= m

\* std::max_element returns the first greatest element
selectMaxAction(qTable, currentPos) ==
    LET state == qTable[currentPos]
    IN (CHOOSE i \in 1 .. 4 :
            /\ state[i] = MaxOf(state)
            /\ \A j \in 1 .. i - 1 : state[j] < state[i]) - 1

\* the actions selectAction can return: r < epsilon never holds for epsilon = 0,
\* and the uniform draw can return every action otherwise
selectAction(qTable, currentPos, epsilon) ==
    IF epsilon = 0 THEN {selectMaxAction(qTable, currentPos)} ELSE Actions

getNextPoint(current, action) ==
    CASE action = 0 -> Pt(current.col - 1, current.row)
      [] action = 1 -> Pt(current.col, current.row - 1)
      [] action = 2 -> Pt(current.col + 1, current.row)
      [] action = 3 -> Pt(current.col, current.row + 1)

getReward(maze, current, next, goal) ==
    IF next = goal
    THEN [reward |-> RewardGoal, done |-> TRUE, next |-> next]
    ELSE IF ~isNotWall(maze, next.col, next.row)
    THEN [reward |-> RewardWall, done |-> TRUE, next |-> current]
    ELSE [reward |-> RewardStep, done |-> FALSE, next |-> next]

updateQTable(qTable, currentState, action, next, reward) ==
    LET maxQNext == MaxOf(qTable[next])
        tg_target == reward + (98 * maxQNext) \div 100
        tg_error == tg_target - qTable[currentState][action + 1]
    IN [qTable EXCEPT ![currentState][action + 1] = @ + (9 * tg_error) \div 10]

Max2(a, b) == IF a > b THEN a ELSE b

Min2(a, b) == IF a < b THEN a ELSE b

\* rows * 1.55f * 100.0f converted to int is rows * 155 for the mazes here
getEpisodesCount(maze) ==
    LET rows == Max2(GetRows(maze) \div 2, GetCols(maze) \div 2)
    IN IF rows <= 30 THEN rows * 155
       ELSE IF rows > 40 THEN rows * 2 * 100 + 500
       ELSE rows * 2 * 100

\* the range check with > for >=
IncorrectPointLoose(maze, start, goal) ==
    LET rows == GetRows(maze) \div 2
        cols == GetCols(maze) \div 2
    IN \/ start.col < 0 \/ start.col > cols \/ start.row < 0 \/ start.row > rows
       \/ goal.col < 0 \/ goal.col > cols \/ goal.row < 0 \/ goal.row > rows

\* the range check of QPathFinding
IncorrectPoint(maze, start, goal) ==
    LET rows == GetRows(maze) \div 2
        cols == GetCols(maze) \div 2
    IN \/ start.col < 0 \/ start.col >= cols \/ start.row < 0 \/ start.row >= rows
       \/ goal.col < 0 \/ goal.col >= cols \/ goal.row < 0 \/ goal.row >= rows

\* QPathFinding up to the first episode: the range check, the fresh table and
\* the assignment of start_ and end_
QEnter(maze, st, en, start, goal) ==
    IF IncorrectPoint(maze, start, goal)
    THEN [ok |-> FALSE, msg |-> IncorrectPointMsg, start |-> st, end |-> en,
          q |-> NoCall]
    ELSE [ok |-> TRUE, msg |-> "", start |-> start, end |-> goal,
          q |-> [active |-> TRUE,
                 qTable |-> [c \in GridCells(maze) |-> <<0, 0, 0, 0>>],
                 start |-> Pt(start.col * 2, start.row * 2),
                 goal |-> Pt(goal.col * 2, goal.row * 2),
                 numEpisodes |-> getEpisodesCount(maze),
                 episode |-> 0,
                 epsilon |-> 0,
                 currentState |-> Pt(start.col * 2, start.row * 2),
                 steps |-> 0]]

\* an incorrect point returns at once; otherwise the call goes on to train
QPathFinding(start, goal) ==
    LET e == QEnter(maze_, start_, end_, start, goal)
    IN /\ pc = "idle"
       /\ start_' = e.start
       /\ end_' = e.end
       /\ q' = e.q
       /\ IF e.ok
          THEN /\ pc' = IF e.q.numEpisodes > 0 THEN "train" ELSE "build"
               /\ changed' = (start_ /= start \/ end_ /= goal)
               /\ result' = Running
          ELSE /\ result' = [op |-> "q_find", ok |-> FALSE, msg |-> e.msg,
                             astar |-> "none"]
               /\ UNCHANGED <<pc, changed>>
       /\ UNCHANGED <<maze_, pointOrder, path_, search>>

\* one iteration of while (!done); when done, the end of the episode too:
\* epsilon = exp(-decay_rate * episode) > 0, kept as 1, and the next episode
TrainStep(action) ==
    /\ pc = "train"
    /\ action \in selectAction(q.qTable, q.currentState, q.epsilon)
    /\ LET next0 == getNextPoint(q.currentState, action)
           rw == getReward(maze_, q.currentState, next0, q.goal)
           table == updateQTable(q.qTable, q.currentState, action, rw.next, rw.reward)
           last == q.episode + 1 >= Min2(q.numEpisodes, MaxEpisodes)
       IN IF rw.done
          THEN /\ q' = [q EXCEPT !.qTable = table, !.episode = @ + 1, !.epsilon = 1,
                                 !.currentState = q.start, !.steps = 0]
               /\ pc' = IF last THEN "build" ELSE "train"
          ELSE /\ q.steps < MaxEpisodeSteps
               /\ q' = [q EXCEPT !.qTable = table, !.currentState = rw.next,
                                 !.steps = @ + 1]
               /\ pc' = "train"
    /\ UNCHANGED <<maze_, start_, end_, path_, pointOrder, result, changed, search>>

\* the greedy rollout of buildQPath while it reads the table inside the grid.
\* Every such read returns the same action, so a cell met twice is met until
\* count exceeds the cap.  Outside the grid the read is out of bounds: "ub".
RECURSIVE rolloutLoop(_, _, _, _, _, _, _)
rolloutLoop(qTable, maze, current, end, parent, count, seen) ==
    IF current = end THEN [kind |-> "goal", parent |-> parent]
    ELSE IF ~InGrid(maze, current)
    THEN [kind |-> "ub", parent |-> parent, current |-> current, count |-> count]
    ELSE LET next == getNextPoint(current, selectMaxAction(qTable, current))
             parent2 == (next :> current) @@ parent
         IN IF count > QStepCap \/ next \in seen
            THEN [kind |-> "capped", parent |-> parent2]
            ELSE rolloutLoop(qTable, maze, next, end, parent2, count + 1,
                             seen \cup {next})

\* what QPathFinding returns once the rollout r has ended
Finish(r) ==
    IF r.kind = "goal"
    THEN LET rp == reconstructPath(r.parent, q.start, q.goal)
         IN IF rp.hang
            THEN /\ pc' = "crashed"
                 /\ q' = NoCall
                 /\ UNCHANGED <<path_, result, changed>>
            ELSE /\ pc' = "idle"
                 /\ q' = NoCall
                 /\ changed' = FALSE
                 /\ path_' = rp.path
                 /\ result' = [op |-> "q_find", ok |-> TRUE, msg |-> "", astar |-> "none"]
    ELSE IF r.kind = "capped"
    THEN /\ pc' = "idle"
         /\ q' = NoCall
         /\ changed' = FALSE
         /\ result' = [op |-> "q_find", ok |-> FALSE, msg |-> PathNotFoundMsg,
                       astar |-> "none"]
         /\ UNCHANGED path_
    ELSE /\ pc' = "rollout_ub"
         /\ q' = [q EXCEPT !.currentState = r.current, !.steps = 0]
                   @@ [parent |-> r.parent, count |-> r.count]
         /\ UNCHANGED <<path_, result, changed>>

buildQPath ==
    /\ pc = "build"
    /\ Finish(rolloutLoop(q.qTable, maze_, q.start, q.goal, EmptyMap, 0, {q.start}))
    /\ UNCHANGED <<maze_, start_, end_, pointOrder, search>>

\* selectMaxAction read outside the table: the read returns any action
RolloutGarbage(action) ==
    /\ pc = "rollout_ub"
    /\ q.steps < MaxGarbage
    /\ LET next == getNextPoint(q.currentState, action)
           parent2 == (next :> q.currentState) @@ q.parent
       IN IF q.count > QStepCap
          THEN Finish([kind |-> "capped", parent |-> parent2])
          ELSE LET r == rolloutLoop(q.qTable, maze_, next, q.goal, parent2,
                                    q.count + 1, {next})
               IN IF r.kind = "ub"
                  THEN /\ pc' = "rollout_ub"
                       /\ q' = [q EXCEPT !.currentState = r.current, !.steps = @ + 1,
                                         !.parent = r.parent, !.count = r.count]
                       /\ UNCHANGED <<path_, result, changed>>
                  ELSE Finish(r)
    /\ UNCHANGED <<maze_, start_, end_, pointOrder, search>>

\* ... or the reads keep the rollout off the goal until count exceeds the cap
RolloutCapped ==
    /\ pc = "rollout_ub"
    /\ Finish([kind |-> "capped", parent |-> q.parent])
    /\ UNCHANGED <<maze_, start_, end_, pointOrder, search>>

\* ... or the read faults and the process ends
RolloutCrash ==
    /\ pc = "rollout_ub"
    /\ pc' = "crashed"
    /\ q' = NoCall
    /\ UNCHANGED <<maze_, start_, end_, path_, pointOrder, result, changed, search>>

(* ---------------------------------------------------------------------- *)
(* findPathAStar one loop iteration at a time                              *)
(* ---------------------------------------------------------------------- *)
NoSearch == [status |-> "none"]

AStarStep ==
    /\ pc = "astar"
    /\ search.status = "searching"
    /\ LET start == Pt(start_.col * 2, start_.row * 2)
           goal == Pt(end_.col * 2, end_.row * 2)
           s == AStarIter(search, maze_, start, goal, pointOrder)
       IN /\ search' = s
          /\ path_' = IF s.status = "found"
                      THEN reconstructPath(s.parent, start, goal).path
                      ELSE path_
    /\ UNCHANGED <<maze_, start_, end_, pointOrder, result, pc, q, changed>>

(* ---------------------------------------------------------------------- *)
(* Inputs                                                                  *)
(* ---------------------------------------------------------------------- *)
\* clicks fall on the logical cells, on cell -1 and up to MaxBeyond cells beyond
ClickCols(maze) == (-1) .. (GetCols(maze) \div 2 + MaxBeyond - 1)

ClickRows(maze) == (-1) .. (GetRows(maze) \div 2 + MaxBeyond - 1)

Ratios == {<<1, 1>>, <<2, 1>>, <<1, 2>>}

QPoints(maze) == {Pt(c, r) : c \in ClickCols(maze), r \in ClickRows(maze)}

\* the endpoints of a search: the logical cells and the ring around them
SearchPoints(maze) ==
    {Pt(c, r) : c \in (-1) .. GetCols(maze) \div 2, r \in (-1) .. GetRows(maze) \div 2}

EmptyMaze == <<>>

\* 1 x 2 logical cells, the wall between them open
Open12 == << <<"0", "0", "0", "1">>,
             <<"1", "1", "1", "1">> >>

\* 1 x 2 logical cells, the wall between them closed
Wall12 == << <<"0", "1", "0", "1">>,
             <<"1", "1", "1", "1">> >>

\* 3 x 3 logical cells, every cell of the doubled grid a passage
Open33 == [r \in 1 .. 6 |-> [c \in 1 .. 6 |-> "0"]]

SmallMazes == {EmptyMaze, Open12, Wall12}

\* every 1 x 2 logical maze whose lower right corner is a wall, whatever its
\* other cells hold, and the open 3 x 3 one
SearchGrids ==
    {g \in [1 .. 2 -> [1 .. 4 -> {"0", "1"}]] : g[2][4] = "1"} \cup {Open33}

Init ==
    /\ maze_ = EmptyMaze
    /\ start_ = Unset
    /\ end_ = Unset
    /\ path_ = <<>>
    /\ pointOrder \in PointOrders
    /\ result = NoResult
    /\ pc = "idle"
    /\ q = NoCall
    /\ changed = FALSE
    /\ search = NoSearch

Clicks ==
    \/ \E x \in ClickCols(maze_), y \in ClickRows(maze_), r \in Ratios :
           setStartPosition(x, y, r[1], r[2])
    \/ \E x \in ClickCols(maze_), y \in ClickRows(maze_), r \in Ratios :
           setEndPosition(x, y, r[1], r[2])

Next ==
    \/ \E m \in SmallMazes : setMaze(m)
    \/ Clicks
    \/ \E s, g \in QPoints(maze_) : QPathFinding(s, g)
    \/ \E a \in Actions : TrainStep(a)
    \/ buildQPath
    \/ \E a \in Actions : RolloutGarbage(a)
    \/ RolloutCapped
    \/ RolloutCrash

Spec == Init /\ [][Next]_vars

\* findPathAStar as findPath calls it: the second endpoint is set, the first
\* is whatever the click gave
InitSearch ==
    /\ maze_ \in SearchGrids
    /\ start_ \in SearchPoints(maze_)
    /\ end_ \in SearchPoints(maze_)
    /\ (start_.col > -1 /\ start_.row > -1) \/ (end_.col > -1 /\ end_.row > -1)
    /\ path_ = <<>>
    /\ pointOrder \in PointOrders
    /\ result = NoResult
    /\ pc = "astar"
    /\ q = NoCall
    /\ changed = FALSE
    /\ search = AStarInit(Pt(start_.col * 2, start_.row * 2),
                          Pt(end_.col * 2, end_.row * 2))

SpecSearch == InitSearch /\ [][AStarStep]_vars /\ WF_vars(AStarStep)

(* ---------------------------------------------------------------------- *)
(* Properties                                                              *)
(* ---------------------------------------------------------------------- *)
Doubled(p) == Pt(p.col * 2, p.row * 2)

\* a call that began and returned in this step
AtomicCall == pc = "idle" /\ pc' = "idle" /\ result'.op \in {"set_maze", "set_start", "set_end", "q_find"}

\* the QPathFinding call returns in this step
QReturn == pc \in {"build", "rollout_ub"} /\ pc' = "idle"

\* the passage predicate of the grid model: in range and '0'
IsPassage(maze, p) ==
    /\ p.col >= 0 /\ p.col < GetCols(maze)
    /\ p.row >= 0 /\ p.row < GetRows(maze)
    /\ maze[p.row + 1][p.col + 1] = "0"

Step4(p) == {Pt(p.col - 1, p.row), Pt(p.col + 1, p.row),
             Pt(p.col, p.row - 1), Pt(p.col, p.row + 1)}

\* the cells reachable from the cells of S by unit steps that enter passages
RECURSIVE ReachFrom(_, _)
ReachFrom(maze, S) ==
    LET more == S \cup {n \in UNION {Step4(p) : p \in S} : IsPassage(maze, n)}
    IN IF more = S THEN S ELSE ReachFrom(maze, more)

Reachable(maze, start, goal) == goal \in ReachFrom(maze, {start})

\* C1: when set_start or set_end runs A* on a non-empty maze and A* finds no
\* path, the call raises PathNotFound with the fixed message and leaves start,
\* end and path as they were before the call.
C1_RestoreOnPathNotFound ==
    [][(AtomicCall /\ result'.op \in {"set_start", "set_end"}
                   /\ result'.astar = "unreachable")
       => /\ GetRows(maze_) > 0 /\ GetCols(maze_) > 0
          /\ result'.ok = FALSE
          /\ result'.msg = "Path not found. Probably the labyrinth has isolated study areas"
          /\ start_' = start_ /\ end_' = end_ /\ path_' = path_]_vars

\* a failed set_end after a solved pair: the end and the path are the old ones
C1_Witness ==
    /\ result.op = "set_end" /\ result.astar = "unreachable"
    /\ end_ /= Unset /\ path_ /= <<>>

\* C2: a public call that fails (raises PathNotFound or returns ok = false)
\* leaves start, end and path as they were before the call.
C2_FailedCallKeepsState ==
    [][/\ (AtomicCall /\ result'.ok = FALSE) => facade' = facade
       /\ (QReturn /\ result'.ok = FALSE) => (~changed /\ facade' = facade)]_vars

\* C3: between calls, a non-empty path starts at the doubled end and ends at
\* the doubled start.
C3_PathEndpoints ==
    (pc = "idle" /\ path_ /= <<>>)
    => /\ path_[1] = Doubled(end_)
       /\ path_[Len(path_)] = Doubled(start_)

\* C4: path is empty whenever start is unset, end is unset or the maze has no
\* rows or no columns; set_start with end unset does not run A*.
C4_PathEmptyWhenUnset ==
    /\ (start_ = Unset \/ end_ = Unset \/ GetRows(maze_) = 0 \/ GetCols(maze_) = 0)
       => path_ = <<>>
    /\ (pc = "idle" /\ result.op = "set_start" /\ end_ = Unset)
       => (result.astar = "none" /\ path_ = <<>>)

\* set_start returned on a non-empty maze while end is unset
C4_Witness ==
    /\ pc = "idle" /\ result.op = "set_start" /\ end_ = Unset
    /\ start_ /= Unset /\ GetRows(maze_) > 0

LogicalInRange(maze, p) ==
    /\ 0 <= p.col /\ p.col < GetCols(maze) \div 2
    /\ 0 <= p.row /\ p.row < GetRows(maze) \div 2

\* C5: every stored endpoint other than the unset sentinel lies in
\* [0, C) x [0, R) of the current maze.
C5_EndpointsInRange ==
    /\ start_ /= Unset => LogicalInRange(maze_, start_)
    /\ end_ /= Unset => LogicalInRange(maze_, end_)

\* C6: after a set_start or set_end that ran A* and returned without raising,
\* every coordinate of path is a passage of the doubled grid.
C6_PathOnPassages ==
    (pc = "idle" /\ result.op \in {"set_start", "set_end"} /\ result.astar = "found")
    => \A i \in 1 .. Len(path_) : IsPassage(maze_, path_[i])

\* C7: the A* search ends, in found exactly when the doubled goal is the
\* doubled start or can be reached from it by unit steps entering passages,
\* and in unreachable exactly otherwise.
C7_AStarDecidesReachability ==
    /\ <>(search.status \in {"found", "unreachable"})
    /\ [](search.status = "found"
          => Reachable(maze_, Doubled(start_), Doubled(end_)))
    /\ [](search.status = "unreachable"
          => ~Reachable(maze_, Doubled(start_), Doubled(end_)))

\* a search that found a goal several steps away from the start
C7_Witness ==
    /\ search.status = "found" /\ Len(path_) >= 5
    /\ search.pq /= {}

\* C8: q_find returns {false, "Incorrect point"} exactly when start or goal is
\* outside [0, C) x [0, R); then start, end and path are unchanged and no
\* training is performed.
C8_IncorrectPoint ==
    /\ pc = "idle"
       => \A s, g \in QPoints(maze_) :
            LET outside == ~LogicalInRange(maze_, s) \/ ~LogicalInRange(maze_, g)
                e == QEnter(maze_, start_, end_, s, g)
                rejected == ~e.ok /\ e.msg = "Incorrect point"
            IN /\ rejected <=> outside
               /\ outside => (e.start = start_ /\ e.end = end_ /\ e.q = NoCall)
    /\ (pc = "idle" /\ result.op = "q_find" /\ result.msg = "Incorrect point")
       => (~result.ok /\ ~q.active)

\* q_find rejected a point while a path was stored
C8_Witness ==
    /\ pc = "idle" /\ result.op = "q_find" /\ result.msg = "Incorrect point"
    /\ path_ /= <<>>

Corridor ==
    /\ maze_ = Open33 /\ start_ = Pt(0, 0) /\ end_ = Pt(2, 2)
    /\ search.status = "found"

\* C9 as stated: on the open 3 x 3 maze, A* from (0,0) to (2,2) stores a path
\* of exactly 5 doubled cells.
C9_FiveCells == Corridor => Len(path_) = 5

\* C9 as amended: the stored path has exactly 9 doubled cells, endpoints
\* included.
C9_NineCells == Corridor => Len(path_) = 9

C9_Witness == Corridor /\ path_[1] = Pt(4, 4) /\ path_[Len(path_)] = Pt(0, 0)

\* C10: the greedy rollout of q_find, on every table the training produced,
\* moves only onto passage cells.
C10_RolloutOnPassages ==
    pc = "build"
    => LET r == rolloutLoop(q.qTable, maze_, q.start, q.goal, EmptyMap, 0, {q.start})
       IN \A c \in DOMAIN r.parent : IsPassage(maze_, c)

====
